---- MODULE Spec2Model ----
(***************************************************************************)
(* A model of the KIS overseas-stock tutorial scripts: the token cache of  *)
(* chapter1_token.py and the transaction-id / endpoint / hashkey routing   *)
(* of the order and query chapters.                                        *)
(*                                                                         *)
(* Python values are modelled as tagged records so that None, strings and  *)
(* numbers stay distinct: [t |-> "null"], [t |-> "str", v |-> s],          *)
(* [t |-> "num", v |-> n] and, for a key that a dict does not hold,        *)
(* [t |-> "missing"].                                                      *)
(***************************************************************************)
EXTENDS Integers, Sequences, FiniteSets, TLC

VARIABLES
    config_yaml,  \* content of config.yaml, read once when config.py is imported
    tokenFile,    \* content of token.json (TOKEN_FILE), the credential store
    clock,        \* time.time(), in seconds
    last,         \* what the latest call did: inputs, requests issued, result
    filled,       \* get_filled_orders: the locals of its pagination loop
    earlier       \* an earlier call of the same process, kept for comparison

vars == <<config_yaml, tokenFile, clock, last, filled, earlier>>

----------------------------------------------------------------------------
(* Python values *)

None == [t |-> "null"]
Missing == [t |-> "missing"]
Str(s) == [t |-> "str", v |-> s]
Num(n) == [t |-> "num", v |-> n]

\* Python truthiness of a value: None, "" and 0 are falsy.
Truthy(x) ==
    \/ x.t = "str" /\ x.v # ""
    \/ x.t = "num" /\ x.v # 0

\* dict.get(key) / dict.get(key, default): a missing key yields the default.
DictGet(x, default) == IF x.t = "missing" THEN default ELSE x

\* needle in s, for two strings
InStr(needle, s) ==
    \E i \in 1..(Len(s) - Len(needle) + 1) :
        SubSeq(s, i, i + Len(needle) - 1) = needle

----------------------------------------------------------------------------
(* Bounds of the model *)

MaxClock == 3      \* the clock runs from 0 to MaxClock seconds
MaxLatency == 1    \* seconds an HTTP exchange may take

(* Program constants *)

SAFETY_MARGIN == 60   \* "now < expires_at - 60"
HTTP_OK == 200        \* res.status_code == 200

LIVE_URL == "https://openapi.koreainvestment.com:9443"
PAPER_URL == "https://openapivts.koreainvestment.com:29443"

----------------------------------------------------------------------------
(* config.py *)

\* load_config(): None when config.yaml is absent, else yaml.safe_load of it
\* (None for an empty file).
load_config ==
    IF config_yaml.kind = "dict" THEN config_yaml ELSE None

\* "if _cfg:" - a loaded mapping; otherwise every global is None.
cfgLoaded == config_yaml.kind = "dict"

APP_KEY == IF cfgLoaded THEN DictGet(load_config.APP_KEY, None) ELSE None
APP_SECRET == IF cfgLoaded THEN DictGet(load_config.APP_SECRET, None) ELSE None
URL_BASE == IF cfgLoaded THEN DictGet(load_config.URL_BASE, None) ELSE None

\* f"{URL_BASE}..." : None formats as the text None
UrlText == IF URL_BASE.t = "str" THEN URL_BASE.v ELSE "None"

KeyValues == {Missing, Str(""), Str("K")}
MOCK_URL == "http://127.0.0.1:8080"

UrlValues == {Missing, Str(LIVE_URL), Str(PAPER_URL), Str(MOCK_URL)}

ConfigFiles ==
    {[kind |-> "absent"], [kind |-> "empty"]}
    \cup { [kind |-> "dict", APP_KEY |-> k, APP_SECRET |-> s, URL_BASE |-> u] :
             k \in KeyValues, s \in KeyValues, u \in UrlValues }

----------------------------------------------------------------------------
(* int(x) of chapter1_token.py line 90, for the values a JSON body holds *)

Digits == {"0", "1", "2", "3", "4", "5", "6", "7", "8", "9"}

DigitVal(c) ==
    CASE c = "0" -> 0 [] c = "1" -> 1 [] c = "2" -> 2 [] c = "3" -> 3
      [] c = "4" -> 4 [] c = "5" -> 5 [] c = "6" -> 6 [] c = "7" -> 7
      [] c = "8" -> 8 [] c = "9" -> 9

IsDigits(s) ==
    Len(s) > 0 /\ \A i \in 1..Len(s) : SubSeq(s, i, i) \in Digits

RECURSIVE ParseDigits(_)
ParseDigits(s) ==
    IF Len(s) = 0 THEN 0
    ELSE ParseDigits(SubSeq(s, 1, Len(s) - 1)) * 10
            + DigitVal(SubSeq(s, Len(s), Len(s)))

\* int(x) succeeds on a number and on a string of decimal digits; it raises
\* TypeError on None and ValueError on any other string.
IntOk(x) == x.t = "num" \/ (x.t = "str" /\ IsDigits(x.v))
IntOf(x) == IF x.t = "num" THEN x.v ELSE ParseDigits(x.v)

----------------------------------------------------------------------------
(* chapter1_token.py *)

\* Contents token.json can have when a call starts.
StoredTokens == {Missing, Str("tok0")}
StoredExpiry == {Missing, None, Str("soon"), Num(0), Num(60), Num(61), Num(62)}

TokenFiles ==
    {[kind |-> "absent"], [kind |-> "unreadable"], [kind |-> "badjson"],
     [kind |-> "notdict"]}
    \cup { [kind |-> "dict", access_token |-> a, expires_at |-> e] :
             a \in StoredTokens, e \in StoredExpiry }

\* Answers of the server to POST /oauth2/tokenP.
IssuedTokens == {Missing, None, Num(7), Str("tokA"), Str("tokB")}
IssuedExpiry == {Missing, None, Str("abc"), Str("62"), Num(61), Num(86400)}

AuthBodies ==
    {[kind |-> "badjson"], [kind |-> "notdict"]}
    \cup { [kind |-> "dict", access_token |-> a, expires_in |-> e] :
             a \in IssuedTokens, e \in IssuedExpiry }

AuthResponses ==
    {[kind |-> "neterr"]}
    \cup { [kind |-> "http", status |-> 403, body |-> [kind |-> "badjson"]],
           [kind |-> "http", status |-> 500,
            body |-> [kind |-> "dict", access_token |-> Str("tokA"),
                      expires_in |-> Num(86400)]] }
    \cup { [kind |-> "http", status |-> HTTP_OK, body |-> b] : b \in AuthBodies }

\* The key check with the secret left out.
KeysPresent_KeyOnly == Truthy(APP_KEY)

\* Lines 49-52: the key check.
KeysPresent == Truthy(APP_KEY) /\ Truthy(APP_SECRET)

\* The freshness test with a margin of 61 seconds.
StoredUsable_Late(file, now) ==
    /\ file.kind = "dict"
    /\ DictGet(file.expires_at, Num(0)).t = "num"
    /\ now < DictGet(file.expires_at, Num(0)).v - SAFETY_MARGIN - 1

\* Lines 55-71: the stored credential is read without an exception and is
\* still usable at time now. A file that cannot be opened or parsed, a JSON
\* value with no .get, and an expires_at that cannot be compared with a
\* number all raise inside the try block and fall through.
StoredUsable(file, now) ==
    /\ file.kind = "dict"
    /\ DictGet(file.expires_at, Num(0)).t = "num"
    /\ now < DictGet(file.expires_at, Num(0)).v - SAFETY_MARGIN

\* Line 67: saved_token.get('access_token')
StoredAccessToken(file) == DictGet(file.access_token, None)

\* Lines 83-85: the request of the exchange.
TokenRequest ==
    [method |-> "POST", url |-> UrlText \o "/oauth2/tokenP",
     appkey |-> APP_KEY, appsecret |-> APP_SECRET]

\* The response test without the status check.
ExchangeOk_AnyStatus(resp) ==
    /\ resp.kind = "http"
    /\ resp.body.kind = "dict"
    /\ resp.body.access_token.t = "str"
    /\ IntOk(resp.body.expires_in)

\* Lines 87-94: the response carries a token that can be persisted. A
\* non-200 status returns None; a body that is no JSON object, a missing
\* key, a token that cannot be sliced and an expires_in that int() rejects
\* raise and are caught at line 111.
ExchangeOk(resp) ==
    /\ resp.kind = "http"
    /\ resp.status = HTTP_OK
    /\ resp.body.kind = "dict"
    /\ resp.body.access_token.t = "str"
    /\ IntOk(resp.body.expires_in)

\* token_data with the time-to-live taken for the expiry time.
TokenData_TtlOnly(resp, now) ==
    [kind |-> "dict",
     access_token |-> resp.body.access_token,
     expires_at |-> Num(IntOf(resp.body.expires_in))]

\* Lines 97-100: token_data
TokenData(resp, now) ==
    [kind |-> "dict",
     access_token |-> resp.body.access_token,
     expires_at |-> Num(now + IntOf(resp.body.expires_in))]

\* The whole of get_access_token(): returns early without keys, reuses the
\* stored credential, or performs the exchange, which takes d seconds.
get_access_token ==
    \/ /\ ~KeysPresent
       /\ last' = [op |-> "get_access_token", path |-> "nokeys",
                   storeBefore |-> tokenFile, now |-> clock,
                   requests |-> <<>>, writes |-> 0, ret |-> None]
       /\ UNCHANGED <<config_yaml, tokenFile, clock, filled, earlier>>
    \/ /\ KeysPresent
       /\ StoredUsable(tokenFile, clock)
       /\ last' = [op |-> "get_access_token", path |-> "reuse",
                   storeBefore |-> tokenFile, now |-> clock,
                   requests |-> <<>>, writes |-> 0,
                   ret |-> StoredAccessToken(tokenFile)]
       /\ UNCHANGED <<config_yaml, tokenFile, clock, filled, earlier>>
    \/ /\ KeysPresent
       /\ ~StoredUsable(tokenFile, clock)
       /\ \E resp \in AuthResponses, d \in 0..MaxLatency :
            /\ clock + d <= MaxClock
            \* without a URL scheme requests.post raises before sending
            /\ URL_BASE.t # "str" => resp.kind = "neterr"
            /\ clock' = clock + d
            /\ IF ExchangeOk(resp)
               THEN /\ tokenFile' = TokenData(resp, clock + d)
                    /\ last' = [op |-> "get_access_token", path |-> "refresh",
                                storeBefore |-> tokenFile, now |-> clock,
                                requests |-> <<TokenRequest>>, resp |-> resp,
                                persistedAt |-> clock + d, writes |-> 1,
                                ret |-> resp.body.access_token]
               ELSE /\ tokenFile' = tokenFile
                    /\ last' = [op |-> "get_access_token", path |-> "refresh",
                                storeBefore |-> tokenFile, now |-> clock,
                                requests |-> <<TokenRequest>>, resp |-> resp,
                                persistedAt |-> clock + d, writes |-> 0,
                                ret |-> None]
       /\ UNCHANGED <<config_yaml, filled, earlier>>

\* Time passes between calls.
Tick ==
    /\ clock < MaxClock
    /\ clock' = clock + 1
    /\ UNCHANGED <<config_yaml, tokenFile, last, filled, earlier>>

\* Any config.yaml and any token.json may be on disk when the script starts.
InitToken ==
    /\ config_yaml \in ConfigFiles
    /\ tokenFile \in TokenFiles
    /\ clock = 0
    /\ last = [op |-> "none"]
    /\ filled = [pc |-> "idle"]
    /\ earlier = [op |-> "none"]

NextToken == get_access_token \/ Tick

SpecToken == InitToken /\ [][NextToken]_vars

----------------------------------------------------------------------------
(* Conversions of the order chapters *)

\* A float is held in thousandths: [t |-> "float", mills |-> m].
Float(m) == [t |-> "float", mills |-> m]

Abs(n) == IF n < 0 THEN -n ELSE n

\* int(qty): a number (a float is truncated towards zero) or a string of
\* digits; anything else raises and the bare except returns None.
QtyOk(qty) == qty.t = "float" \/ IntOk(qty)
QtyInt(qty) ==
    IF qty.t = "float"
    THEN (IF qty.mills < 0 THEN -1 ELSE 1) * (Abs(qty.mills) \div 1000)
    ELSE IntOf(qty)

\* float(price)
PriceOk(price) == price.t \in {"num", "float"} \/ (price.t = "str" /\ IsDigits(price.v))
PriceMills(price) ==
    IF price.t = "float" THEN price.mills ELSE IntOf(price) * 1000

\* round(x, 2): to the nearest hundredth, in thousandths (the inputs of the
\* model hold no exact tie).
Round2(m) ==
    LET a == Abs(m)
        q == a \div 10
        r == a % 10
        up == IF r > 5 \/ (r = 5 /\ q % 2 = 1) THEN 1 ELSE 0
    IN (IF m < 0 THEN -1 ELSE 1) * (q + up) * 10

Pad3(f) ==
    IF f < 10 THEN "00" \o ToString(f)
    ELSE IF f < 100 THEN "0" \o ToString(f)
    ELSE ToString(f)

RECURSIVE StripZeros(_)
StripZeros(s) ==
    IF Len(s) > 1 /\ SubSeq(s, Len(s), Len(s)) = "0"
    THEN StripZeros(SubSeq(s, 1, Len(s) - 1))
    ELSE s

\* str(x) / f"{x}" of a float: 50.0, 50.01, -1.0
FloatText(m) ==
    (IF m < 0 THEN "-" ELSE "") \o ToString(Abs(m) \div 1000) \o "."
        \o StripZeros(Pad3(Abs(m) % 1000))

\* str(x)
PyStr(x) ==
    CASE x.t = "num" -> ToString(x.v)
      [] x.t = "float" -> FloatText(x.mills)
      [] x.t = "str" -> x.v
      [] x.t = "null" -> "None"

----------------------------------------------------------------------------
(* The environment of the order and query chapters *)

Hours == {0, 9, 10, 17, 18, 23}       \* datetime.datetime.now().hour
Tokens == {"tokA"}                    \* the token argument
Symbols == {"AAPL"}
Markets == {"NASD"}
OrderTypes == {"00", "34", "33", "32", "31", "99"}
QtyInputs == {Num(1), Num(0), Num(-1), Str("abc")}
PriceInputs == {Float(50004), Float(-1000), Str("x")}

\* Answers to POST /uapi/hashkey
HashResponses ==
    {[kind |-> "neterr"],
     [kind |-> "http", status |-> 500, body |-> [kind |-> "badjson"]],
     [kind |-> "http", status |-> HTTP_OK, body |-> [kind |-> "dict", HASH |-> Missing]],
     [kind |-> "http", status |-> HTTP_OK, body |-> [kind |-> "dict", HASH |-> Str("h1")]]}

\* Answers to an order, amend/cancel or query request
OrderResponses ==
    {[kind |-> "neterr"],
     [kind |-> "http", status |-> 500, body |-> [kind |-> "badjson"]],
     [kind |-> "http", status |-> HTTP_OK, body |-> [kind |-> "badjson"]],
     [kind |-> "http", status |-> HTTP_OK,
      body |-> [kind |-> "dict", rt_cd |-> "0", ODNO |-> Str("0030072265")]],
     [kind |-> "http", status |-> HTTP_OK,
      body |-> [kind |-> "dict", rt_cd |-> "1", ODNO |-> Missing]]}

\* requests raises on a URL without a scheme, before anything is sent.
Reachable(resp) == URL_BASE.t # "str" => resp.kind = "neterr"

\* What a function that was called leaves behind.
Returned(op, args, hour, requests, ret) ==
    [op |-> op, args |-> args, hour |-> hour, requests |-> requests,
     raised |-> FALSE, ret |-> ret]

Raised(op, args, hour, requests) ==
    [op |-> op, args |-> args, hour |-> hour, requests |-> requests,
     raised |-> TRUE, ret |-> None]

----------------------------------------------------------------------------
(* chapter4_buy.py *)

\* hashkey(datas), lines 42-47: the request
HashRequest(data) ==
    [kind |-> "hashkey", method |-> "POST", url |-> UrlText \o "/uapi/hashkey",
     tr_id |-> Missing, hashkey |-> Missing, tr_cont |-> Missing, data |-> data]

\* hashkey(datas), lines 48-52: res.json()["HASH"] on 200, "" otherwise. The
\* call raises when the request fails or the 200 body holds no HASH.
HashRaises(resp) ==
    \/ resp.kind = "neterr"
    \/ /\ resp.status = HTTP_OK
       /\ (resp.body.kind # "dict" \/ resp.body.HASH = Missing)

HashValue(resp) ==
    IF resp.status = HTTP_OK THEN resp.body.HASH ELSE Str("")

\* The day session with 18 h counted in
is_daytime_Inclusive(hour) == 10 <= hour /\ hour <= 18

\* Line 74: is_daytime
is_daytime(hour) == 10 <= hour /\ hour < 18

\* The tr_id of a buy order when the first order of the process latches the
\* night id for the orders after it.
BuyTrId_Latched(hour) ==
    IF earlier.op = "none" /\ is_daytime(hour)
    THEN "TTTS6036U"
    ELSE "TTTT1002U"

\* Lines 76-89: tr_id and url of a buy order
BuyTrId(hour) == IF is_daytime(hour) THEN "TTTS6036U" ELSE "TTTT1002U"

BuyUrl(hour) ==
    IF is_daytime(hour)
    THEN UrlText \o "/uapi/overseas-stock/v1/trading/daytime-order"
    ELSE UrlText \o "/uapi/overseas-stock/v1/trading/order"

\* Lines 81-84: LOC/MOC/LOO/MOO become a limit order in the day session
BuyOrderType(hour, order_type) ==
    IF is_daytime(hour) /\ order_type \in {"34", "33", "32", "31"}
    THEN "00"
    ELSE order_type

\* Lines 102-111 (and chapter5 lines 40-49): the request body
OrderData(symbol, qty_int, round_price, market, order_type) ==
    [OVRS_EXCG_CD |-> market, PDNO |-> symbol, ORD_DVSN |-> order_type,
     ORD_QTY |-> ToString(qty_int), OVRS_ORD_UNPR |-> FloatText(round_price),
     ORD_SVR_DVSN_CD |-> "0"]

\* Line 123: the buy order is signed
BuyNeedsHash(tr_id) == tr_id = "TTTT1002U"

\* Line 128: the order request
OrderRequest(url, token, tr_id, hash, data) ==
    [kind |-> "order", method |-> "POST", url |-> url, token |-> token,
     tr_id |-> Str(tr_id), hashkey |-> hash, tr_cont |-> Missing,
     data |-> data]

\* Lines 130-144: the caller gets the order number of an accepted order and
\* None otherwise; output['rt_cd'] on a body that is no JSON object raises.
OrderRaises(resp) ==
    \/ resp.kind = "neterr"
    \/ resp.status = HTTP_OK /\ resp.body.kind # "dict"

OrderAccepted(resp) ==
    /\ resp.kind = "http"
    /\ resp.status = HTTP_OK
    /\ resp.body.kind = "dict"
    /\ resp.body.rt_cd = "0"

\* The shared part with the order posted a second time when it is refused.
Dispatch_Retry(op, args, hour, url, tr_id, data, sign, accepted, refused) ==
    \E resp \in OrderResponses :
        LET req == OrderRequest(url, args.token, tr_id, Missing, data)
        IN /\ Reachable(resp)
           /\ last' =
                IF OrderRaises(resp)
                THEN Raised(op, args, hour, <<req>>)
                ELSE IF OrderAccepted(resp)
                THEN Returned(op, args, hour, <<req>>,
                              accepted[resp.body.ODNO])
                ELSE Returned(op, args, hour, <<req, req>>, refused)

\* The part the three writing functions share: sign when asked to, then
\* send, then read the answer. accepted is what the function returns for an
\* accepted order.
Dispatch(op, args, hour, url, tr_id, data, sign, accepted, refused) ==
    IF sign
    THEN \E hresp \in HashResponses :
            /\ Reachable(hresp)
            /\ IF HashRaises(hresp)
               THEN last' = Raised(op, args, hour, <<HashRequest(data)>>)
               ELSE \E resp \in OrderResponses :
                      LET reqs == <<HashRequest(data),
                                    OrderRequest(url, args.token, tr_id,
                                                 HashValue(hresp), data)>>
                      IN /\ Reachable(resp)
                         /\ last' =
                              IF OrderRaises(resp)
                              THEN Raised(op, args, hour, reqs)
                              ELSE Returned(op, args, hour, reqs,
                                     IF OrderAccepted(resp)
                                     THEN accepted[resp.body.ODNO]
                                     ELSE refused)
    ELSE \E resp \in OrderResponses :
            LET reqs == <<OrderRequest(url, args.token, tr_id, Missing, data)>>
            IN /\ Reachable(resp)
               /\ last' =
                    IF OrderRaises(resp)
                    THEN Raised(op, args, hour, reqs)
                    ELSE Returned(op, args, hour, reqs,
                           IF OrderAccepted(resp)
                           THEN accepted[resp.body.ODNO]
                           ELSE refused)

\* What send_buy_order / send_sell_order return for an accepted order
ReturnOrderNo == [odno \in {Str("0030072265")} |-> odno]

\* send_buy_order(token, symbol, qty, price, market, order_type)
send_buy_order ==
    /\ last.op = "none"
    /\ filled.pc = "idle"
    /\ \E token \in Tokens, symbol \in Symbols, qty \in QtyInputs,
          price \in PriceInputs, market \in Markets,
          order_type \in OrderTypes, hour \in Hours :
         LET args == [token |-> token, symbol |-> symbol, qty |-> qty,
                      price |-> price, market |-> market,
                      order_type |-> order_type]
         IN IF ~(QtyOk(qty) /\ PriceOk(price))
            THEN last' = Returned("send_buy_order", args, hour, <<>>, None)
            ELSE LET tr_id == BuyTrId(hour)
                     data == OrderData(symbol, QtyInt(qty),
                                       Round2(PriceMills(price)), market,
                                       BuyOrderType(hour, order_type))
                 IN Dispatch("send_buy_order", args, hour, BuyUrl(hour),
                             tr_id, data, BuyNeedsHash(tr_id),
                             ReturnOrderNo, None)
    /\ UNCHANGED <<config_yaml, tokenFile, clock, filled, earlier>>

----------------------------------------------------------------------------
(* chapter5_sell.py *)

\* Lines 39-50: tr_id and url of a sell order
SellTrId(hour) ==
    IF is_daytime(hour) THEN "TTTS6037U"
    ELSE IF InStr("openapivts", URL_BASE.v) THEN "VTTS1001U"
    ELSE "TTTT1006U"

SellUrl(hour) ==
    IF is_daytime(hour)
    THEN UrlText \o "/uapi/overseas-stock/v1/trading/daytime-order"
    ELSE UrlText \o "/uapi/overseas-stock/v1/trading/order"

\* Line 62: ORD_DVSN is the order_type argument as given
SellOrderType(hour, order_type) == order_type

\* Line 75: the sell order is signed
SellNeedsHash(tr_id) == tr_id = "TTTT1006U"

\* Line 45 evaluates "openapivts" in URL_BASE, a TypeError when URL_BASE is
\* None; it is reached in the night branch only.
ModeTestRaises(hour) == ~is_daytime(hour) /\ URL_BASE.t # "str"

\* send_sell_order(token, symbol, qty, price, market, order_type)
send_sell_order ==
    /\ last.op = "none"
    /\ filled.pc = "idle"
    /\ \E token \in Tokens, symbol \in Symbols, qty \in QtyInputs,
          price \in PriceInputs, market \in Markets,
          order_type \in OrderTypes, hour \in Hours :
         LET args == [token |-> token, symbol |-> symbol, qty |-> qty,
                      price |-> price, market |-> market,
                      order_type |-> order_type]
         IN IF ~(QtyOk(qty) /\ PriceOk(price))
            THEN last' = Returned("send_sell_order", args, hour, <<>>, None)
            ELSE IF ModeTestRaises(hour)
            THEN last' = Raised("send_sell_order", args, hour, <<>>)
            ELSE LET tr_id == SellTrId(hour)
                     data == OrderData(symbol, QtyInt(qty),
                                       Round2(PriceMills(price)), market,
                                       SellOrderType(hour, order_type))
                 IN Dispatch("send_sell_order", args, hour, SellUrl(hour),
                             tr_id, data, SellNeedsHash(tr_id),
                             ReturnOrderNo, None)
    /\ UNCHANGED <<config_yaml, tokenFile, clock, filled, earlier>>

----------------------------------------------------------------------------
(* chapter8_amend_cancel.py *)

Bool(b) == [t |-> "bool", v |-> b]

OrderRefs == {Str("0030072265"), Str(""), None}   \* org_order_no
AmendTypes == {"CANCEL", "MODIFY"}                 \* type
AmendQty == {Num(1)}
AmendPrice == {Num(0), Float(100000)}

\* Lines 41-46: dvsn_cd
AmendDvsn(type) == IF type = "MODIFY" THEN "01" ELSE "02"

\* Lines 52-60: tr_id and url
AmendTrId(hour) ==
    IF is_daytime(hour) THEN "TTTS6038U"
    ELSE IF InStr("openapivts", URL_BASE.v) THEN "VTTT1004U"
    ELSE "TTTT1004U"

AmendUrl(hour) ==
    IF is_daytime(hour)
    THEN UrlText \o "/uapi/overseas-stock/v1/trading/daytime-order-rvsecncl"
    ELSE UrlText \o "/uapi/overseas-stock/v1/trading/order-rvsecncl"

\* Lines 63-78: the request body; the day session adds two empty fields
AmendData(hour, org_order_no, symbol, qty, price, type, market) ==
    IF is_daytime(hour)
    THEN [OVRS_EXCG_CD |-> market, PDNO |-> symbol,
          ORGN_ODNO |-> org_order_no, RVSE_CNCL_DVSN_CD |-> AmendDvsn(type),
          ORD_QTY |-> PyStr(qty), OVRS_ORD_UNPR |-> PyStr(price),
          ORD_SVR_DVSN_CD |-> "0", CTAC_TLNO |-> "", MGCO_APTM_ODNO |-> ""]
    ELSE [OVRS_EXCG_CD |-> market, PDNO |-> symbol,
          ORGN_ODNO |-> org_order_no, RVSE_CNCL_DVSN_CD |-> AmendDvsn(type),
          ORD_QTY |-> PyStr(qty), OVRS_ORD_UNPR |-> PyStr(price),
          ORD_SVR_DVSN_CD |-> "0"]

\* Line 91: the request is signed
AmendNeedsHash(tr_id) == tr_id = "TTTT1004U"

\* Lines 97-113: True for an accepted request, False otherwise
ReturnTrue == [odno \in {Str("0030072265")} |-> Bool(TRUE)]

\* amend_cancel_order(token, org_order_no, symbol, qty, price, type, market)
amend_cancel_order ==
    /\ last.op = "none"
    /\ filled.pc = "idle"
    /\ \E token \in Tokens, org_order_no \in OrderRefs, symbol \in Symbols,
          qty \in AmendQty, price \in AmendPrice, type \in AmendTypes,
          market \in Markets, hour \in Hours :
         LET args == [token |-> token, org_order_no |-> org_order_no,
                      symbol |-> symbol, qty |-> qty, price |-> price,
                      type |-> type, market |-> market]
         IN IF ModeTestRaises(hour)
            THEN last' = Raised("amend_cancel_order", args, hour, <<>>)
            ELSE LET tr_id == AmendTrId(hour)
                     data == AmendData(hour, org_order_no, symbol, qty,
                                       price, type, market)
                 IN Dispatch("amend_cancel_order", args, hour,
                             AmendUrl(hour), tr_id, data,
                             AmendNeedsHash(tr_id), ReturnTrue, Bool(FALSE))
    /\ UNCHANGED <<config_yaml, tokenFile, clock, filled, earlier>>

----------------------------------------------------------------------------
(* chapter3_balance.py, chapter6_unfilled.py *)

\* A GET request of a query
QueryRequest(url, token, tr_id, tr_cont, params) ==
    [kind |-> "query", method |-> "GET", url |-> url, token |-> token,
     tr_id |-> Str(tr_id), hashkey |-> Missing, tr_cont |-> tr_cont,
     data |-> params]

\* The mode test of the balance query with its branches exchanged.
BalanceTrId_Swapped ==
    IF InStr("openapi.koreainvestment.com", URL_BASE.v)
    THEN "VTTS3012R"
    ELSE "TTTS3012R"

\* chapter3 lines 36-41
BalanceTrId ==
    IF InStr("openapi.koreainvestment.com", URL_BASE.v)
    THEN "TTTS3012R"
    ELSE "VTTS3012R"

\* chapter3 lines 52-59
BalanceParams ==
    [OVRS_EXCG_CD |-> "NASD", TR_CRCY_CD |-> "USD",
     CTX_AREA_FK200 |-> "", CTX_AREA_NK200 |-> ""]

\* get_my_stocks(token): the mode test is outside the try block and raises
\* on a None URL_BASE; everything after it is caught, and nothing is returned.
get_my_stocks ==
    /\ last.op = "none"
    /\ filled.pc = "idle"
    /\ \E token \in Tokens, hour \in Hours :
         LET args == [token |-> token]
         IN IF URL_BASE.t # "str"
            THEN last' = Raised("get_my_stocks", args, hour, <<>>)
            ELSE \E resp \in OrderResponses :
                   last' = Returned("get_my_stocks", args, hour,
                             <<QueryRequest(
                                 UrlText \o "/uapi/overseas-stock/v1/trading/inquire-balance",
                                 token, BalanceTrId, Missing, BalanceParams)>>,
                             None)
    /\ UNCHANGED <<config_yaml, tokenFile, clock, filled, earlier>>

\* chapter6 lines 29-32
PendingTrId ==
    IF InStr("openapi.koreainvestment.com", URL_BASE.v)
    THEN "TTTS3018R"
    ELSE "VTTS3018R"

\* chapter6 lines 44-51
PendingParams ==
    [OVRS_EXCG_CD |-> "NASD", SORT_SQN |-> "DS",
     CTX_AREA_FK200 |-> "", CTX_AREA_NK200 |-> ""]

\* get_pending_orders(token)
get_pending_orders ==
    /\ last.op = "none"
    /\ filled.pc = "idle"
    /\ \E token \in Tokens, hour \in Hours :
         LET args == [token |-> token]
         IN IF URL_BASE.t # "str"
            THEN last' = Raised("get_pending_orders", args, hour, <<>>)
            ELSE \E resp \in OrderResponses :
                   last' = Returned("get_pending_orders", args, hour,
                             <<QueryRequest(
                                 UrlText \o "/uapi/overseas-stock/v1/trading/inquire-nccs",
                                 token, PendingTrId, Missing, PendingParams)>>,
                             None)
    /\ UNCHANGED <<config_yaml, tokenFile, clock, filled, earlier>>

----------------------------------------------------------------------------
(* chapter7_filled.py *)

max_pages == 10

TODAY == "20240102"                       \* datetime.now().strftime("%Y%m%d")
DateArgs == {None, Str("20240101")}       \* start_date, end_date
FilledHours == {9, 10}                    \* the function never reads the hour

\* Lines 30-35
FilledTrId ==
    IF InStr("openapivts", URL_BASE.v) THEN "VTTS3035R" ELSE "TTTS3035R"

\* Lines 38-42
DateOrToday(d) == IF d = None THEN TODAY ELSE d.v

\* Lines 53-68, with the continuation keys of the moment
FilledParams(start_date, end_date, nk, fk) ==
    [PDNO |-> "%", ORD_STRT_DT |-> DateOrToday(start_date),
     ORD_END_DT |-> DateOrToday(end_date), SLL_BUY_DVSN |-> "00",
     CCLD_NCCS_DVSN |-> "00", OVRS_EXCG_CD |-> "%", SORT_SQN |-> "DS",
     CTX_AREA_FK200 |-> fk, CTX_AREA_NK200 |-> nk]

\* str.strip() for blanks
RECURSIVE Strip(_)
Strip(s) ==
    IF Len(s) > 0 /\ SubSeq(s, 1, 1) = " " THEN Strip(SubSeq(s, 2, Len(s)))
    ELSE IF Len(s) > 0 /\ SubSeq(s, Len(s), Len(s)) = " "
    THEN Strip(SubSeq(s, 1, Len(s) - 1))
    ELSE s

\* Answers to page p of GET inquire-ccnl: the header tr_cont, the
\* continuation keys and the orders of the page.
Page(tr_cont, nk, fk, output) ==
    [kind |-> "http", status |-> HTTP_OK,
     body |-> [kind |-> "dict", rt_cd |-> "0", output |-> output,
               ctx_area_nk200 |-> nk, ctx_area_fk200 |-> fk],
     tr_cont |-> tr_cont]

PageResponses(p) ==
    {[kind |-> "neterr"],
     [kind |-> "http", status |-> 500, body |-> [kind |-> "badjson"]],
     [kind |-> "http", status |-> HTTP_OK, body |-> [kind |-> "badjson"]],
     [kind |-> "http", status |-> HTTP_OK,
      body |-> [kind |-> "dict", rt_cd |-> "1"]],
     Page(Str("M"), "nk" \o ToString(p) \o " ", "fk" \o ToString(p), <<p>>),
     Page(Str("F"), "nk" \o ToString(p), " ", <<>>),
     Page(Str("D"), "nk" \o ToString(p), "fk" \o ToString(p), <<p>>),
     Page(Str("M"), "  ", "fk" \o ToString(p), <<p>>),
     Page(Missing, "nk" \o ToString(p), "fk" \o ToString(p), <<>>)}

\* Lines 82-83: the page cannot be read
PageRaises(resp) ==
    \/ resp.kind = "neterr"
    \/ resp.status = HTTP_OK /\ resp.body.kind # "dict"

\* Lines 82-85: the page is a success
PageOk(resp) ==
    /\ resp.kind = "http"
    /\ resp.status = HTTP_OK
    /\ resp.body.kind = "dict"
    /\ resp.body.rt_cd = "0"

\* The test for a next page with the continuation key left out
PageContinues_HeaderOnly(resp) ==
    DictGet(resp.tr_cont, Str("D")).v \in {"M", "F"}

\* Lines 94-98: there is a next page
PageContinues(resp) ==
    /\ DictGet(resp.tr_cont, Str("D")).v \in {"M", "F"}
    /\ Strip(resp.body.ctx_area_nk200) # ""

\* What get_filled_orders leaves behind
FilledResult(raised, requests, responses, all_orders, current_page) ==
    [op |-> "get_filled_orders", args |-> filled.args, hour |-> filled.hour,
     requests |-> requests, responses |-> responses, raised |-> raised,
     ret |-> None, all_orders |-> all_orders, current_page |-> current_page]

\* get_filled_orders(token, start_date, end_date), lines 30-76: up to the
\* loop. The mode test raises on a None URL_BASE.
get_filled_orders ==
    /\ last.op = "none"
    /\ filled.pc = "idle"
    /\ \E token \in Tokens, start_date \in DateArgs, end_date \in DateArgs,
          hour \in FilledHours :
         LET args == [token |-> token, start_date |-> start_date,
                      end_date |-> end_date]
         IN IF URL_BASE.t # "str"
            THEN /\ last' = Raised("get_filled_orders", args, hour, <<>>)
                 /\ filled' = filled
            ELSE /\ last' = last
                 /\ filled' = [pc |-> "loop", args |-> args, hour |-> hour,
                               tr_id |-> FilledTrId, current_page |-> 1,
                               CTX_AREA_NK200 |-> "", CTX_AREA_FK200 |-> "",
                               tr_cont |-> Missing, all_orders |-> <<>>,
                               requests |-> <<>>, responses |-> <<>>]
    /\ UNCHANGED <<config_yaml, tokenFile, clock, earlier>>

\* Lines 78-117: one turn of the loop, and lines 119-124 when it is the last.
filled_page ==
    /\ filled.pc = "loop"
    /\ \E resp \in PageResponses(filled.current_page) :
         LET req == QueryRequest(
                      UrlText \o "/uapi/overseas-stock/v1/trading/inquire-ccnl",
                      filled.args.token, filled.tr_id, filled.tr_cont,
                      FilledParams(filled.args.start_date,
                                   filled.args.end_date,
                                   filled.CTX_AREA_NK200,
                                   filled.CTX_AREA_FK200))
             requests == Append(filled.requests, req)
             responses == Append(filled.responses, resp)
             orders == IF PageOk(resp)
                       THEN filled.all_orders \o resp.body.output
                       ELSE filled.all_orders
         IN IF PageRaises(resp)
            THEN /\ last' = FilledResult(TRUE, requests, responses, orders,
                                         filled.current_page)
                 /\ filled' = [pc |-> "idle"]
            ELSE IF PageOk(resp) /\ PageContinues(resp)
                                 /\ filled.current_page + 1 <= max_pages
            THEN /\ last' = last
                 /\ filled' = [filled EXCEPT
                        !.CTX_AREA_NK200 = Strip(resp.body.ctx_area_nk200),
                        !.CTX_AREA_FK200 = Strip(resp.body.ctx_area_fk200),
                        !.tr_cont = Str("N"),
                        !.current_page = @ + 1,
                        !.all_orders = orders,
                        !.requests = requests,
                        !.responses = responses]
            ELSE /\ last' = FilledResult(FALSE, requests, responses, orders,
                              IF PageOk(resp) /\ PageContinues(resp)
                              THEN filled.current_page + 1
                              ELSE filled.current_page)
                 /\ filled' = [pc |-> "idle"]
    /\ UNCHANGED <<config_yaml, tokenFile, clock, earlier>>

\* The script ends with the call it made; the next run starts from the
\* configuration and the token file alone.
script_exit ==
    /\ last.op # "none"
    /\ filled.pc = "idle"
    /\ last' = [op |-> "none"]
    /\ UNCHANGED <<config_yaml, tokenFile, clock, filled, earlier>>

\* The order and query functions are called with a token, which
\* get_access_token hands out only when both keys are configured.
InitRouter ==
    /\ config_yaml \in { c \in ConfigFiles :
                           /\ c.kind = "dict"
                           /\ c.APP_KEY = Str("K")
                           /\ c.APP_SECRET = Str("K") }
    /\ tokenFile = [kind |-> "absent"]
    /\ clock = 0
    /\ last = [op |-> "none"]
    /\ filled = [pc |-> "idle"]
    /\ earlier = [op |-> "none"]

NextRouter ==
    \/ send_buy_order
    \/ send_sell_order
    \/ amend_cancel_order
    \/ get_my_stocks
    \/ get_pending_orders
    \/ get_filled_orders
    \/ filled_page
    \/ script_exit

SpecRouter == InitRouter /\ [][NextRouter]_vars

----------------------------------------------------------------------------
(* Properties of the token cache, stated over the latest call *)

IsTokenCall == last.op = "get_access_token"

\* config.yaml supplies a non-empty value for the key
Supplied(key) ==
    /\ config_yaml.kind = "dict"
    /\ key.t = "str"
    /\ key.v # ""

BothKeysSupplied ==
    /\ config_yaml.kind = "dict"
    /\ Supplied(config_yaml.APP_KEY)
    /\ Supplied(config_yaml.APP_SECRET)

\* A persisted credential: a token string and an absolute expiry time.
IsCredential(file) ==
    /\ file.kind = "dict"
    /\ file.access_token.t = "str"
    /\ file.expires_at.t = "num"

\* The response of the exchange carries a token and a time-to-live.
Issued(resp) ==
    /\ resp.kind = "http"
    /\ resp.status = 200
    /\ resp.body.kind = "dict"
    /\ resp.body.access_token.t = "str"
    /\ resp.body.expires_in \in {Str("62"), Num(61), Num(86400)}

IssuedTtl(resp) ==
    CASE resp.body.expires_in = Str("62") -> 62
      [] resp.body.expires_in = Num(61) -> 61
      [] resp.body.expires_in = Num(86400) -> 86400

\* C1: with key and secret present, a call that finds a persisted credential
\* with now < expires_at - 60 returns the stored access token, issues no
\* request and leaves the credential store as it was.
C1_ReuseLeavesStore ==
    (/\ IsTokenCall
     /\ BothKeysSupplied
     /\ IsCredential(last.storeBefore)
     /\ last.now < last.storeBefore.expires_at.v - 60)
    => /\ last.ret = last.storeBefore.access_token
       /\ last.requests = <<>>
       /\ last.writes = 0
       /\ tokenFile = last.storeBefore

\* A credential issued by an earlier call (tokA is never in the initial
\* store) is reused by a later call.
C1_Witness ==
    /\ IsTokenCall
    /\ BothKeysSupplied
    /\ IsCredential(last.storeBefore)
    /\ last.now < last.storeBefore.expires_at.v - 60
    /\ last.ret = Str("tokA")
    /\ last.requests = <<>>

\* C2: with key and secret present, a call that finds a persisted credential
\* with now >= expires_at - 60 issues exactly one authentication request;
\* when the response carries a token and a time-to-live ttl, the store then
\* holds that token with expires_at = (time.time() when the credential is
\* built) + ttl in place of the prior credential, and the token is returned.
C2_RefreshPersists ==
    (/\ IsTokenCall
     /\ BothKeysSupplied
     /\ IsCredential(last.storeBefore)
     /\ last.now >= last.storeBefore.expires_at.v - 60)
    => /\ Len(last.requests) = 1
       /\ last.requests[1].url \in {LIVE_URL \o "/oauth2/tokenP",
                                    PAPER_URL \o "/oauth2/tokenP",
                                    MOCK_URL \o "/oauth2/tokenP",
                                    "None/oauth2/tokenP"}
       /\ Issued(last.resp) =>
            /\ tokenFile = [kind |-> "dict",
                            access_token |-> last.resp.body.access_token,
                            expires_at |->
                                Num(last.persistedAt + IssuedTtl(last.resp))]
            /\ last.ret = last.resp.body.access_token
            /\ last.writes = 1
            /\ last.now <= last.persistedAt
            /\ last.persistedAt <= clock

\* An expired credential tok0 was replaced by tokB, one second after the
\* freshness test.
C2_Witness ==
    /\ IsTokenCall
    /\ BothKeysSupplied
    /\ IsCredential(last.storeBefore)
    /\ last.storeBefore.access_token = Str("tok0")
    /\ last.now >= last.storeBefore.expires_at.v - 60
    /\ Issued(last.resp)
    /\ last.persistedAt = last.now + 1
    /\ tokenFile.access_token = Str("tokB")
    /\ tokenFile.expires_at = Num(last.persistedAt + 62)

\* C3: when the application key or secret is empty or absent, the call
\* returns no token, issues no request and does not write the store.
C3_MissingKeysFailFast ==
    (IsTokenCall /\ ~BothKeysSupplied)
    => /\ last.ret = None
       /\ last.requests = <<>>
       /\ last.writes = 0
       /\ tokenFile = last.storeBefore

\* The secret alone is missing while a usable credential is stored.
C3_Witness ==
    /\ IsTokenCall
    /\ config_yaml.kind = "dict"
    /\ Supplied(config_yaml.APP_KEY)
    /\ ~Supplied(config_yaml.APP_SECRET)
    /\ IsCredential(last.storeBefore)
    /\ last.now < last.storeBefore.expires_at.v - 60
    /\ last.ret = None

\* C4: when the exchange fails (request error, non-200 status, or a body
\* that does not carry a token string and a time-to-live), the call returns
\* no token and the store holds what it held before the call.
C4_FailedExchangePersistsNothing ==
    (/\ IsTokenCall
     /\ Len(last.requests) = 1
     /\ ~Issued(last.resp))
    => /\ last.ret = None
       /\ last.writes = 0
       /\ tokenFile = last.storeBefore

\* A 500 answer whose body would otherwise be a valid grant, received
\* while an expired credential is stored.
C4_Witness ==
    /\ IsTokenCall
    /\ Len(last.requests) = 1
    /\ last.resp.kind = "http"
    /\ last.resp.status = 500
    /\ last.resp.body.kind = "dict"
    /\ IsCredential(last.storeBefore)
    /\ tokenFile = last.storeBefore
    /\ last.ret = None

\* The stored content is no credential: unreadable, no JSON, no JSON object,
\* or an object with a missing or ill-typed field.
Corrupt(file) ==
    /\ file.kind # "absent"
    /\ ~IsCredential(file)

\* C5: with key and secret present, a corrupt store is treated like an
\* absent one: the call issues one authentication request.
C5_CorruptStoreRefreshes ==
    (IsTokenCall /\ BothKeysSupplied /\ Corrupt(last.storeBefore))
    => Len(last.requests) = 1

----------------------------------------------------------------------------
(* Properties of the routing, stated over the latest call *)

WriteOps == {"send_buy_order", "send_sell_order", "amend_cancel_order"}
QueryOps == {"get_my_stocks", "get_pending_orders", "get_filled_orders"}

\* The trading mode the configuration selects
Live == config_yaml.URL_BASE = Str(LIVE_URL)
Paper == config_yaml.URL_BASE = Str(PAPER_URL)

\* The session of the latest call
Day == last.hour \in 10..17
Night == last.hour \in (0..9) \cup (18..23)

\* The latest call got as far as the network
Dispatched == last.op \in WriteOps \cup QueryOps /\ last.requests # <<>>

\* The latest call asked /uapi/hashkey for a signature, or sent a hashkey header
SigningCalled == \E i \in 1..Len(last.requests) : last.requests[i].kind = "hashkey"
HashkeySent == \E i \in 1..Len(last.requests) : last.requests[i].hashkey # Missing

\* The order, amend/cancel or query requests of the latest call
Sent == { i \in 1..Len(last.requests) : last.requests[i].kind # "hashkey" }

\* C6: a call that reaches the network asks for a signature exactly when it
\* is a write in the NIGHT session and LIVE mode; otherwise it neither calls
\* hashkey nor sends a hashkey header.
C6_SigningExactlyLiveNightWrites ==
    (Dispatched /\ (Live \/ Paper))
    => /\ SigningCalled <=> (last.op \in WriteOps /\ Night /\ Live)
       /\ HashkeySent => SigningCalled

\* C7: a buy or sell order that is sent carries ORD_DVSN "00" when LOC, MOC,
\* LOO or MOO was asked for in the DAY session or in PAPER mode, and the
\* order type asked for otherwise.
C7_OrderTypeDowngrade ==
    (/\ last.op \in {"send_buy_order", "send_sell_order"}
     /\ Live \/ Paper
     /\ last.args.order_type \in {"00", "34", "33", "32", "31"})
    => \A i \in Sent :
         last.requests[i].data.ORD_DVSN =
            IF last.args.order_type # "00" /\ (Day \/ Paper)
            THEN "00"
            ELSE last.args.order_type

\* C8: amend_cancel_order with an empty or absent org_order_no issues no
\* request (neither to hashkey nor to order-rvsecncl) and reports failure;
\* stated for the live and the paper base URL.
C8_AmendNeedsOrderRef ==
    (/\ last.op = "amend_cancel_order"
     /\ Live \/ Paper
     /\ last.args.org_order_no \in {Str(""), None})
    => /\ last.requests = <<>>
       /\ last.ret # Bool(TRUE)

\* The transaction id of a request is of the paper family (V...)
PaperFamily(req) == SubSeq(req.tr_id.v, 1, 1) = "V"

\* C9: every order and amend/cancel request carries a paper-family
\* transaction id in PAPER mode and a live-family one in LIVE mode, in both
\* sessions.
C9_ModeSelectsFamily ==
    (last.op \in WriteOps /\ (Live \/ Paper))
    => \A i \in Sent : PaperFamily(last.requests[i]) <=> Paper

\* The transaction id of each query in each mode
QueryTrId(op) ==
    CASE op = "get_my_stocks" -> IF Live THEN "TTTS3012R" ELSE "VTTS3012R"
      [] op = "get_pending_orders" -> IF Live THEN "TTTS3018R" ELSE "VTTS3018R"
      [] op = "get_filled_orders" -> IF Live THEN "TTTS3035R" ELSE "VTTS3035R"

\* C10: with the live or the paper base URL, every request of the balance,
\* pending-orders and filled-orders queries carries the transaction id of
\* its mode, at every hour, and no query calls hashkey or sends a hashkey
\* header; this holds for the pages of a filled-orders query under way too.
C10_QueryRouting ==
    /\ (last.op \in QueryOps /\ (Live \/ Paper))
       => /\ last.requests # <<>>
          /\ \A i \in 1..Len(last.requests) :
               /\ last.requests[i].kind = "query"
               /\ last.requests[i].tr_id = Str(QueryTrId(last.op))
               /\ last.requests[i].hashkey = Missing
    /\ (filled.pc = "loop" /\ (Live \/ Paper))
       => /\ filled.tr_id = QueryTrId("get_filled_orders")
          /\ \A i \in 1..Len(filled.requests) :
               /\ filled.requests[i].kind = "query"
               /\ filled.requests[i].tr_id = Str(QueryTrId("get_filled_orders"))
               /\ filled.requests[i].hashkey = Missing

\* A filled-orders query of three pages in PAPER mode during the day
\* session.
C10_Witness ==
    /\ last.op = "get_filled_orders"
    /\ Paper
    /\ Day
    /\ Len(last.requests) = 3
    /\ last.requests[3].tr_id = Str("VTTS3035R")

----------------------------------------------------------------------------
(* The scripts as a whole: a token is acquired, then an order is placed *)

\* get_access_token, as the first call of a script, and the time between
\* two scripts.
token_script ==
    /\ last.op \in {"none", "get_access_token"}
    /\ (get_access_token \/ Tick)

\* The three writing functions. They read neither token.json nor the
\* clock, so they are followed from the initial store only.
order_script ==
    /\ KeysPresent
    /\ tokenFile = [kind |-> "absent"]
    /\ clock = 0
    /\ (send_buy_order \/ send_sell_order \/ amend_cancel_order)

NextCalls == token_script \/ order_script \/ script_exit

SpecCalls == InitToken /\ [][NextCalls]_vars

\* The requests of the latest call that submit an order or an amend/cancel
OrderPosts == { i \in 1..Len(last.requests) : last.requests[i].kind = "order" }

\* C11: one call of get_access_token issues at most one authentication
\* request, and one call of send_buy_order, send_sell_order or
\* amend_cancel_order issues at most one order request, whether the request
\* raised, was refused or was accepted.
C11_NoRetry ==
    /\ last.op = "get_access_token" => Len(last.requests) <= 1
    /\ last.op \in WriteOps => Cardinality(OrderPosts) <= 1

\* A sell order that the server did not accept: one request, no second try.
C11_Witness ==
    /\ last.op = "send_sell_order"
    /\ Cardinality(OrderPosts) = 1
    /\ ~last.raised
    /\ last.ret = None

\* The signing step of the latest call failed: hashkey raised, so that no
\* order follows the hashkey request, or it answered without a signature,
\* which hashkey() turns into "".
SigningFailed ==
    /\ SigningCalled
    /\ \/ OrderPosts = {}
       \/ \E i \in OrderPosts : last.requests[i].hashkey = Str("")

\* C12: when the signing step of a buy, sell or amend/cancel call fails, no
\* order request is sent after it and the call ends in a failure: an
\* exception, None or False.
C12_FailedSigningStopsOrder ==
    (last.op \in WriteOps /\ SigningFailed)
    => /\ OrderPosts = {}
       /\ last.raised \/ last.ret \in {None, Bool(FALSE)}

----------------------------------------------------------------------------
(* Properties of the pagination of get_filled_orders *)

\* The loop is scheduled until it ends: nothing in it waits on anything but
\* the answer to its own request, which arrives or times out after 10 s.
SpecRouterFair == SpecRouter /\ WF_vars(filled_page)

\* The requests and answers of the call under way, or of the call that ended
Looping == filled.pc = "loop"
Ended == last.op = "get_filled_orders" /\ filled.pc = "idle"
PageRequests == IF Looping THEN filled.requests ELSE last.requests
PageAnswers == IF Looping THEN filled.responses ELSE last.responses

\* An answer that is a success and names a next page
Continuation(resp) ==
    /\ resp.kind = "http"
    /\ resp.status = HTTP_OK
    /\ resp.body.kind = "dict"
    /\ resp.body.rt_cd = "0"
    /\ resp.tr_cont \in {Str("M"), Str("F")}
    /\ Strip(resp.body.ctx_area_nk200) # ""

\* Every answer but the latest was a success naming a next page, and no
\* more than max_pages pages were asked for.
StopsAtFirstEnd ==
    (Looping \/ (Ended /\ URL_BASE.t = "str"))
    => /\ Len(PageRequests) <= max_pages
       /\ Len(PageAnswers) = Len(PageRequests)
       /\ \A i \in 1..(Len(PageAnswers) - 1) : Continuation(PageAnswers[i])

\* C13: the loop of get_filled_orders always ends; it asks for no page after
\* an answer that is an error or names no next page, and never for more
\* than ten pages.
C13_PaginationTerminates ==
    /\ [] StopsAtFirstEnd
    /\ Looping ~> Ended

\* A call that ended at the ceiling: ten pages asked for, the tenth answer
\* still naming a next page.
C13_Witness ==
    /\ Ended
    /\ Len(last.requests) = max_pages
    /\ Continuation(last.responses[max_pages])

----------------------------------------------------------------------------
(* Two calls in one process *)

\* The order request of a call that got as far as posting one
HasOrder(call) ==
    /\ call.op \in WriteOps
    /\ call.requests # <<>>
    /\ call.requests[Len(call.requests)].kind = "order"

OrderOf(call) == call.requests[Len(call.requests)]

\* What the caller chooses: the operation, the hour and the order type or
\* the MODIFY / CANCEL intent. URL_BASE is fixed by config.yaml.
InputsOf(call) ==
    [op |-> call.op, hour |-> call.hour,
     intent |-> IF call.op = "amend_cancel_order"
                THEN call.args.type ELSE call.args.order_type]

\* What the routing decides: tr_id, endpoint, whether the order is signed
\* and the order type or amend/cancel code that is sent.
RouteOf(call) ==
    [tr_id |-> OrderOf(call).tr_id,
     url |-> OrderOf(call).url,
     signed |-> OrderOf(call).hashkey # Missing,
     dvsn |-> IF call.op = "amend_cancel_order"
              THEN OrderOf(call).data.RVSE_CNCL_DVSN_CD
              ELSE OrderOf(call).data.ORD_DVSN]

\* The process goes on after an order and remembers how it was routed.
call_again ==
    /\ earlier.op = "none"
    /\ HasOrder(last)
    /\ earlier' = [op |-> last.op, inputs |-> InputsOf(last),
                   route |-> RouteOf(last)]
    /\ last' = [op |-> "none"]
    /\ UNCHANGED <<config_yaml, tokenFile, clock, filled>>

first_call ==
    /\ earlier.op = "none"
    /\ (send_buy_order \/ send_sell_order \/ amend_cancel_order)

\* A later call with the inputs of the remembered one; quantity, price,
\* symbol, market and the answers of the server are free.
second_call ==
    /\ earlier.op # "none"
    /\ (send_buy_order \/ send_sell_order \/ amend_cancel_order)
    /\ InputsOf(last') = earlier.inputs

NextTwoCalls == first_call \/ call_again \/ second_call

SpecTwoCalls == InitRouter /\ [][NextTwoCalls]_vars

C15_OnlyValidOrdersLeave ==
    (last.op \in {"send_buy_order", "send_sell_order"} /\ last.requests # <<>>)
    => /\ QtyOk(last.args.qty)
       /\ QtyInt(last.args.qty) > 0
       /\ PriceOk(last.args.price)
       /\ PriceMills(last.args.price) >= 0

----------------------------------------------------------------------------
(* Sessions *)

TradingPath == "/uapi/overseas-stock/v1/trading/"

\* The tr_id and the endpoint of the day session, and the endpoint of the
\* night session, per operation
DayId ==
    [op \in WriteOps |->
        IF op = "send_buy_order" THEN Str("TTTS6036U")
        ELSE IF op = "send_sell_order" THEN Str("TTTS6037U")
        ELSE Str("TTTS6038U")]

DayEndpoint ==
    [op \in WriteOps |->
        IF op = "amend_cancel_order" THEN "daytime-order-rvsecncl"
        ELSE "daytime-order"]

NightEndpoint ==
    [op \in WriteOps |->
        IF op = "amend_cancel_order" THEN "order-rvsecncl" ELSE "order"]

\* C16: an order or amend/cancel request sent at an hour h with
\* 10 <= h < 18 carries the day tr_id of its operation and goes to the
\* daytime endpoint; sent at any other hour it carries another tr_id and
\* goes to the night endpoint; and the tr_id of a sell order is never the
\* one a buy order gets at the same hour.
C16_SessionRouting ==
    HasOrder(last)
    => /\ Day => /\ OrderOf(last).tr_id = DayId[last.op]
                 /\ OrderOf(last).url =
                        UrlText \o TradingPath \o DayEndpoint[last.op]
       /\ Night => /\ OrderOf(last).tr_id \notin
                        { DayId[op] : op \in WriteOps }
                   /\ OrderOf(last).url =
                        UrlText \o TradingPath \o NightEndpoint[last.op]
       /\ last.op = "send_sell_order"
            => OrderOf(last).tr_id # Str(BuyTrId(last.hour))

\* A sell order at 18 h, the first hour after the day session.
C16_Witness ==
    /\ HasOrder(last)
    /\ last.op = "send_sell_order"
    /\ last.hour = 18
    /\ OrderOf(last).url = UrlText \o TradingPath \o "order"

----------------------------------------------------------------------------
(* The continuation protocol of get_filled_orders *)

\* The outputs of the successful pages among the first n answers, in order
RECURSIVE Collected(_, _)
Collected(answers, n) ==
    IF n = 0 THEN <<>>
    ELSE Collected(answers, n - 1) \o
         (IF PageOk(answers[n])
          THEN answers[n].body.output ELSE <<>>)

\* C17: the first page request has empty continuation keys and no tr_cont
\* header; every later one has tr_cont "N" and the ctx_area_nk200 and
\* ctx_area_fk200 of the answer just before it, as they were returned; and
\* the list a call ends with is the outputs of its successful pages in
\* order, which the call reports also when a later page failed.
C17_ContinuationProtocol ==
    (Looping \/ (Ended /\ URL_BASE.t = "str"))
    => /\ \A i \in 1..Len(PageRequests) :
            IF i = 1
            THEN /\ PageRequests[i].tr_cont = Missing
                 /\ PageRequests[i].data.CTX_AREA_NK200 = ""
                 /\ PageRequests[i].data.CTX_AREA_FK200 = ""
            ELSE /\ PageRequests[i].tr_cont = Str("N")
                 /\ PageRequests[i].data.CTX_AREA_NK200 =
                        PageAnswers[i - 1].body.ctx_area_nk200
                 /\ PageRequests[i].data.CTX_AREA_FK200 =
                        PageAnswers[i - 1].body.ctx_area_fk200
       /\ Ended => /\ last.all_orders =
                          Collected(PageAnswers, Len(PageAnswers))
                    /\ Len(PageAnswers) > 1 => ~last.raised

----------------------------------------------------------------------------
(* The two mode tests *)

\* The latest request of the latest call carries a paper-trading tr_id
PaperIdSent == SubSeq(last.requests[Len(last.requests)].tr_id.v, 1, 1) = "V"

\* The latest call chose its tr_id by the live test (balance, pending
\* orders), or by the paper test (sell, amend/cancel at night, filled orders)
ByLiveTest ==
    /\ last.op \in {"get_my_stocks", "get_pending_orders"}
    /\ last.requests # <<>>

ByPaperTest ==
    \/ last.op \in {"send_sell_order", "amend_cancel_order"}
         /\ Night /\ HasOrder(last)
    \/ last.op = "get_filled_orders" /\ last.requests # <<>>

\* C18: the chapters agree on the mode of every URL_BASE: a chapter that
\* uses the live test picks a paper id exactly when the paper test holds of
\* URL_BASE, and a chapter that uses the paper test picks a paper id exactly
\* when the live test does not hold.
C18_ModeTestsAgree ==
    /\ ByLiveTest => (PaperIdSent <=> InStr("openapivts", URL_BASE.v))
    /\ ByPaperTest
         => (PaperIdSent <=> ~InStr("openapi.koreainvestment.com", URL_BASE.v))

----------------------------------------------------------------------------
(* The token that get_access_token hands out *)

\* C19: with both keys configured, a call of get_access_token that made no
\* authentication request returns a non-empty access token, whatever
\* token.json held.
C19_ReuseReturnsToken ==
    (IsTokenCall /\ BothKeysSupplied /\ last.requests = <<>>)
    => /\ last.ret.t = "str"
       /\ last.ret.v # ""

----------------------------------------------------------------------------
(* The page count of get_filled_orders *)

\* The call got to the report of line 124: it did not raise and it
\* collected at least one order.
Reported == Ended /\ URL_BASE.t = "str" /\ ~last.raised /\ last.all_orders # <<>>

\* C20: the number of pages that get_filled_orders reports is the number of
\* page requests it issued, whether the loop ended on an answer without a
\* next page, on an error answer or at the ceiling of max_pages.
C20_PageCountIsRequestCount ==
    Reported => last.current_page = Len(last.requests)

====
